---- MODULE Spec2Model ----
(***************************************************************************)
(* Factory discovery of amms-rs (src/discovery/factory.rs):                *)
(* discover_factories scans the chain's event log in fixed-width block     *)
(* windows, classifies every returned log by its emitting address,         *)
(* aggregates a per-address count and returns the factories whose count    *)
(* reaches the caller's threshold.                                         *)
(*                                                                         *)
(* The middleware (RPC provider) is an external collaborator.  It is       *)
(* modelled by the chain head height and by chain_logs, the logs the       *)
(* provider holds for the combined topic0 filter, in chain order.  A       *)
(* provider call is a suspension point: the request is issued by one       *)
(* action and its answer (a value or a failure) is consumed by another.    *)
(***************************************************************************)
EXTENDS Integers, Sequences, FiniteSets, TLC

\* ------------------------------------------------------------------------
\* Bounds of the model
\* ------------------------------------------------------------------------
\* chains of well-formed logs: head height and number of logs
MaxHeight == 2
MaxLogs == 3
\* chains that may hold malformed logs (unknown topic0, no block number)
MaxFaultyLogs == 2
\* long chains with few logs, for the window arithmetic
WinMaxHeight == 7
WinMaxLogs == 1
\* chains scanned twice
RerunMaxHeight == 2
RerunMaxLogs == 2
\* the threshold argument ranges over 0..MaxThreshold
MaxThreshold == 2
\* the largest value of the unsigned integer type of from_block, step,
\* target_block and current_block, scaled down from 2^64 - 1
U64_MAX == 15
\* chains scanned with heights and steps up to U64_MAX
WideMaxLogs == 1
\* chains scanned by two calls at a time
PairMaxHeight == 1
PairMaxLogs == 1

\* ------------------------------------------------------------------------
\* Values
\* ------------------------------------------------------------------------
Addresses == {"A", "B"}

PAIR_CREATED_EVENT_SIGNATURE == "PairCreated"
POOL_CREATED_EVENT_SIGNATURE == "PoolCreated"
\* a topic0 that is the signature of no factory variant
OtherTopic == "Other"
\* Option<U64>::None of log.block_number
NoBlockNumber == -1

discovery_event_signature(factory) ==
    IF factory = "UniswapV2Factory"
    THEN PAIR_CREATED_EVENT_SIGNATURE
    ELSE POOL_CREATED_EVENT_SIGNATURE

\* the loop of lines 41-45: one signature per requested factory, in order
EventSignatures(fs) == [i \in 1..Len(fs) |-> discovery_event_signature(fs[i])]

\* Factory::try_from(H256): the reverse of the signature mapping
FactoryTryFrom(topic0) ==
    IF topic0 = PAIR_CREATED_EVENT_SIGNATURE
    THEN [ok |-> TRUE, variant |-> "UniswapV2Factory"]
    ELSE IF topic0 = POOL_CREATED_EVENT_SIGNATURE
    THEN [ok |-> TRUE, variant |-> "UniswapV3Factory"]
    ELSE [ok |-> FALSE, variant |-> "None"]

\* A log as the provider returns it.  height is the block the provider files
\* the log under (what the from/to range of a filter selects on);
\* block_number is the optional field the log carries.
LogEntries(H, topics, blockless) ==
    { l \in [address : Addresses, topic0 : topics, height : 0..H,
             block_number : blockless \cup (0..H)] :
        l.block_number \in {NoBlockNumber, l.height} }

\* logs a well-behaved provider returns for the filter: a factory signature
\* as topic0 and a block number
WellFormedLogs(H) ==
    LogEntries(H, {PAIR_CREATED_EVENT_SIGNATURE, POOL_CREATED_EVENT_SIGNATURE}, {})

\* logs that may be malformed: topic0 may be unknown, the block number may be
\* absent
AnyLogs(H) ==
    LogEntries(H, {PAIR_CREATED_EVENT_SIGNATURE, OtherTopic}, {NoBlockNumber})

\* chains of exactly n logs in chain order (non-decreasing height)
ChainsOfLen(entries, n) ==
    { s \in [1..n -> entries] :
        \A i \in 1..(n - 1) : s[i].height <= s[i + 1].height }

Chains(entries, maxLogs) == UNION { ChainsOfLen(entries, n) : n \in 0..maxLogs }

\* the step arguments tried for head height H: every step above H yields the
\* single window [0, H], as H + 1 does
Steps(H) == 1..(H + 1)

\* u64 addition and subtraction as a build without overflow checks computes
\* them (modulo 2^64)
WrappingAdd(a, b) == (a + b) % (U64_MAX + 1)
WrappingSub(a, b) == (a - b) % (U64_MAX + 1)

\* a + b does not fit the type: a build with overflow checks panics
Overflows(a, b) == a + b > U64_MAX

\* the requests recorded for one call: a scan that never wraps issues at most
\* U64_MAX log queries after the height query
MaxRequests == U64_MAX + 2

\* the input vectors of DiscoverableFactory
FactoryVecs ==
    { <<"UniswapV2Factory">>, <<"UniswapV3Factory">>,
      <<"UniswapV2Factory", "UniswapV3Factory">> }

RECURSIVE SelectRange(_, _, _)
\* get_logs: the provider's logs filed under heights from..to, in chain order
SelectRange(s, from, to) ==
    IF s = <<>> THEN <<>>
    ELSE IF Head(s).height >= from /\ Head(s).height <= to
         THEN <<Head(s)>> \o SelectRange(Tail(s), from, to)
         ELSE SelectRange(Tail(s), from, to)

EmptyTable == [a \in {} |-> 0]

\* ------------------------------------------------------------------------
\* State
\* ------------------------------------------------------------------------
VARIABLES
    chain_head,                \* the provider's current block number
    chain_logs,                \* the provider's logs for the filter, chain order
    factories,                 \* argument
    number_of_amms_threshold,  \* argument
    step,                      \* argument
    pc,                        \* position in discover_factories
    from_block,
    current_block,
    target_block,
    logs,                      \* rest of the iterator of `for log in logs`
    identified_factories,      \* HashMap<H160, (Factory, u64)>
    filtered_factories,        \* the returned Vec<Factory>
    outcome,                   \* "running", "Ok" or the AMMError variant
    requests,                  \* history: provider requests issued, in order
    run,                       \* 1 for the first call, 2 for the repeated call
    first,                     \* history: what the first call ended with
    other                      \* the arguments and locals of a second call in
                               \* progress, while it is not the one executing

vars == <<chain_head, chain_logs, factories, number_of_amms_threshold, step, pc,
          from_block, current_block, target_block, logs, identified_factories,
          filtered_factories, outcome, requests, run, first, other>>

chain == <<chain_head, chain_logs>>
args == <<factories, number_of_amms_threshold, step>>
harness == <<run, first, other>>

NoFirst == [outcome |-> "none", step |-> 0, table |-> EmptyTable, result |-> {}]

\* no second call
NoOther == [id |-> 0, pc |-> "none"]

\* the arguments and locals of the executing call, as call number id
Frame(id) ==
    [id |-> id, factories |-> factories,
     number_of_amms_threshold |-> number_of_amms_threshold, step |-> step,
     pc |-> pc, from_block |-> from_block, current_block |-> current_block,
     target_block |-> target_block, logs |-> logs,
     identified_factories |-> identified_factories,
     filtered_factories |-> filtered_factories, outcome |-> outcome,
     requests |-> requests]

\* a call with these arguments at line 50
EntryFrame(id, fs, threshold, st) ==
    [id |-> id, factories |-> fs, number_of_amms_threshold |-> threshold,
     step |-> st, pc |-> "get_block_number", from_block |-> 0,
     current_block |-> 0, target_block |-> 0, logs |-> <<>>,
     identified_factories |-> EmptyTable, filtered_factories |-> <<>>,
     outcome |-> "running", requests |-> <<>>]

\* the state at line 50: arguments bound, filter built, from_block = 0
Entry ==
    /\ pc = "get_block_number"
    /\ from_block = 0
    /\ current_block = 0
    /\ target_block = 0
    /\ logs = <<>>
    /\ identified_factories = EmptyTable
    /\ filtered_factories = <<>>
    /\ outcome = "running"
    /\ requests = <<>>

AllFactories == <<"UniswapV2Factory", "UniswapV3Factory">>

\* the chains the scans are run against, with the factories and the threshold
\* asked for
InitChain ==
    \/ /\ chain_head \in 0..MaxHeight
       /\ chain_logs \in Chains(WellFormedLogs(chain_head), MaxLogs)
       /\ factories = AllFactories
       /\ number_of_amms_threshold \in 0..MaxThreshold
    \/ /\ chain_head \in 0..MaxHeight
       /\ chain_logs \in Chains(AnyLogs(chain_head), MaxFaultyLogs)
       /\ factories = AllFactories
       /\ number_of_amms_threshold \in 0..MaxThreshold
    \/ /\ chain_head \in 0..WinMaxHeight
       /\ chain_logs \in Chains(WellFormedLogs(chain_head), WinMaxLogs)
       /\ factories \in FactoryVecs
       /\ number_of_amms_threshold = 0

InitCall ==
    /\ step \in Steps(chain_head)
    /\ run = 1
    /\ first = NoFirst
    /\ other = NoOther
    /\ Entry

Init == InitChain /\ InitCall

\* the chains that are scanned twice
InitRerun ==
    /\ chain_head \in 0..RerunMaxHeight
    /\ chain_logs \in Chains(AnyLogs(chain_head), RerunMaxLogs)
    /\ factories = AllFactories
    /\ number_of_amms_threshold \in {0, MaxThreshold - 1}
    /\ InitCall

\* the chains that two calls scan at a time
InitPair ==
    /\ chain_head \in 0..PairMaxHeight
    /\ chain_logs \in Chains(AnyLogs(chain_head), PairMaxLogs)
    /\ factories = AllFactories
    /\ number_of_amms_threshold = 0
    /\ InitCall

\* every head height and every step > 0 of the integer type
InitWide ==
    /\ chain_head \in 0..U64_MAX
    /\ chain_logs \in Chains(LogEntries(chain_head,
                                        {PAIR_CREATED_EVENT_SIGNATURE}, {}),
                             WideMaxLogs)
    /\ factories = AllFactories
    /\ number_of_amms_threshold = 0
    /\ step \in 1..U64_MAX
    /\ run = 1
    /\ first = NoFirst
    /\ other = NoOther
    /\ Entry

\* ------------------------------------------------------------------------
\* Actions
\* ------------------------------------------------------------------------
\* lines 51-52: middleware.get_block_number() is issued
CallGetBlockNumber ==
    /\ pc = "get_block_number"
    /\ pc' = "await_block_number"
    /\ requests' = Append(requests, [kind |-> "get_block_number", topic0 |-> <<>>,
                                      from_block |-> 0, to_block |-> 0, ok |-> TRUE,
                                      answered |-> FALSE])
    /\ UNCHANGED <<chain, args, harness, from_block, current_block, target_block,
                   logs, identified_factories, filtered_factories, outcome>>

\* the request awaited has returned a value
MarkAnswered(reqs) == [reqs EXCEPT ![Len(reqs)].answered = TRUE]

\* the request awaited has returned an error
MarkFailed(reqs) ==
    [reqs EXCEPT ![Len(reqs)].ok = FALSE, ![Len(reqs)].answered = TRUE]

\* lines 53-55: the answer to get_block_number; `?` returns the mapped error
AwaitBlockNumber ==
    /\ pc = "await_block_number"
    /\ \E ok \in BOOLEAN :
         IF ok
         THEN /\ current_block' = chain_head
              /\ pc' = "while"
              /\ requests' = MarkAnswered(requests)
              /\ UNCHANGED outcome
         ELSE /\ outcome' = "MiddlewareError"
              /\ pc' = "done"
              /\ requests' = MarkFailed(requests)
              /\ UNCHANGED current_block
    /\ UNCHANGED <<chain, args, harness, from_block, target_block, logs,
                   identified_factories, filtered_factories>>

\* the window's end without the clamp of lines 67-69
TargetBlockUnclamped(from, st, cur) == from + st - 1

\* lines 66-69
TargetBlock(from, st, cur) ==
    LET sum == WrappingSub(WrappingAdd(from, st), 1) IN
    IF sum > cur THEN cur ELSE sum

\* an earlier window of this call was computed past an overflow: the build
\* has no overflow checks
HasWrapped ==
    \E i \in 1..Len(requests) :
        /\ requests[i].kind = "get_logs"
        /\ Overflows(requests[i].from_block, step)

\* lines 64-75: loop test passed, window computed, get_logs issued.  When
\* from_block + step overflows (line 66), a build with overflow checks
\* panics and one without wraps.
CallGetLogs ==
    /\ pc = "while"
    /\ from_block < current_block
    /\ Len(requests) < MaxRequests
    /\ \E overflow_checks \in BOOLEAN :
         IF Overflows(from_block, step) /\ overflow_checks /\ ~HasWrapped
         THEN /\ outcome' = "Panic"
              /\ pc' = "done"
              /\ UNCHANGED <<target_block, requests>>
         ELSE /\ target_block' = TargetBlock(from_block, step, current_block)
              /\ requests' = Append(requests, [kind |-> "get_logs",
                                        topic0 |-> EventSignatures(factories),
                                        from_block |-> from_block,
                                        to_block |-> target_block', ok |-> TRUE,
                                        answered |-> FALSE])
              /\ pc' = "await_logs"
              /\ UNCHANGED outcome
    /\ UNCHANGED <<chain, args, harness, from_block, current_block, logs,
                   identified_factories, filtered_factories>>

\* as AwaitLogs, but a failed get_logs is taken for an empty window and the
\* scan goes on
AwaitLogsSkipsFailure ==
    /\ pc = "await_logs"
    /\ \E ok \in BOOLEAN :
         IF ok
         THEN /\ logs' = SelectRange(chain_logs, from_block, target_block)
              /\ requests' = MarkAnswered(requests)
         ELSE /\ logs' = <<>>
              /\ requests' = MarkFailed(requests)
    /\ pc' = "for"
    /\ UNCHANGED <<chain, args, harness, from_block, current_block, target_block,
                   identified_factories, filtered_factories, outcome>>

\* lines 76-77: the answer to get_logs; `?` returns the mapped error
AwaitLogs ==
    /\ pc = "await_logs"
    /\ \E ok \in BOOLEAN :
         IF ok
         THEN /\ logs' = SelectRange(chain_logs, from_block, target_block)
              /\ pc' = "for"
              /\ requests' = MarkAnswered(requests)
              /\ UNCHANGED outcome
         ELSE /\ outcome' = "MiddlewareError"
              /\ pc' = "done"
              /\ requests' = MarkFailed(requests)
              /\ UNCHANGED logs
    /\ UNCHANGED <<chain, args, harness, from_block, current_block, target_block,
                   identified_factories, filtered_factories>>

NewFactory(variant, address, creation_block) ==
    [variant |-> variant, address |-> address, creation_block |-> creation_block]

Insert(table, address, entry) ==
    [a \in (DOMAIN table) \cup {address} |-> IF a = address THEN entry ELSE table[a]]

\* as Classify, but the log that establishes an entry is counted too
ClassifyCountsCreation(table, log) ==
    IF log.address \in DOMAIN table
    THEN [error |-> "none",
          table |-> [table EXCEPT ![log.address].amms_length = @ + 1]]
    ELSE LET decoded == FactoryTryFrom(log.topic0) IN
         IF ~decoded.ok
         THEN [error |-> "UnknownEventSignature", table |-> table]
         ELSE IF log.block_number = NoBlockNumber
         THEN [error |-> "BlockNumberNotFound", table |-> table]
         ELSE [error |-> "none",
               table |-> Insert(table, log.address,
                                [factory |-> NewFactory(decoded.variant, log.address,
                                                        log.block_number),
                                 amms_length |-> 1])]

\* as Classify, but a missing block number is taken for height 0
ClassifyDefaultsBlock(table, log) ==
    IF log.address \in DOMAIN table
    THEN [error |-> "none",
          table |-> [table EXCEPT ![log.address].amms_length = @ + 1]]
    ELSE LET decoded == FactoryTryFrom(log.topic0) IN
         IF ~decoded.ok
         THEN [error |-> "UnknownEventSignature", table |-> table]
         ELSE [error |-> "none",
               table |-> Insert(table, log.address,
                                [factory |-> NewFactory(decoded.variant, log.address,
                                                        IF log.block_number = NoBlockNumber
                                                        THEN 0 ELSE log.block_number),
                                 amms_length |-> 0])]

\* as Classify, but a later log of a known address moves its creation_block
ClassifyLastWins(table, log) ==
    IF log.address \in DOMAIN table
    THEN [error |-> "none",
          table |-> [table EXCEPT
                       ![log.address].amms_length = @ + 1,
                       ![log.address].factory.creation_block =
                           IF log.block_number = NoBlockNumber
                           THEN @ ELSE log.block_number]]
    ELSE LET decoded == FactoryTryFrom(log.topic0) IN
         IF ~decoded.ok
         THEN [error |-> "UnknownEventSignature", table |-> table]
         ELSE IF log.block_number = NoBlockNumber
         THEN [error |-> "BlockNumberNotFound", table |-> table]
         ELSE [error |-> "none",
               table |-> Insert(table, log.address,
                                [factory |-> NewFactory(decoded.variant, log.address,
                                                        log.block_number),
                                 amms_length |-> 0])]

\* as Classify, but every decodable log (re)inserts its address's entry
ClassifyReplaces(table, log) ==
    LET decoded == FactoryTryFrom(log.topic0) IN
    IF decoded.ok /\ log.block_number /= NoBlockNumber
    THEN [error |-> "none",
          table |-> Insert(table, log.address,
                           [factory |-> NewFactory(decoded.variant, log.address,
                                                   log.block_number),
                            amms_length |-> 0])]
    ELSE IF log.address \in DOMAIN table
    THEN [error |-> "none",
          table |-> [table EXCEPT ![log.address].amms_length = @ + 1]]
    ELSE IF ~decoded.ok
    THEN [error |-> "UnknownEventSignature", table |-> table]
    ELSE [error |-> "BlockNumberNotFound", table |-> table]

\* as Classify, but the log is decoded before its address is looked up
ClassifyDecodesFirst(table, log) ==
    LET decoded == FactoryTryFrom(log.topic0) IN
    IF ~decoded.ok
    THEN [error |-> "UnknownEventSignature", table |-> table]
    ELSE IF log.block_number = NoBlockNumber
    THEN [error |-> "BlockNumberNotFound", table |-> table]
    ELSE IF log.address \in DOMAIN table
    THEN [error |-> "none",
          table |-> [table EXCEPT ![log.address].amms_length = @ + 1]]
    ELSE [error |-> "none",
          table |-> Insert(table, log.address,
                           [factory |-> NewFactory(decoded.variant, log.address,
                                                   log.block_number),
                            amms_length |-> 0])]

\* as Classify, but the block number is required before the topic is decoded
ClassifyBlockFirst(table, log) ==
    IF log.address \in DOMAIN table
    THEN [error |-> "none",
          table |-> [table EXCEPT ![log.address].amms_length = @ + 1]]
    ELSE IF log.block_number = NoBlockNumber
    THEN [error |-> "BlockNumberNotFound", table |-> table]
    ELSE LET decoded == FactoryTryFrom(log.topic0) IN
         IF ~decoded.ok
         THEN [error |-> "UnknownEventSignature", table |-> table]
         ELSE [error |-> "none",
               table |-> Insert(table, log.address,
                                [factory |-> NewFactory(decoded.variant, log.address,
                                                        log.block_number),
                                 amms_length |-> 0])]

\* lines 79-111: the body of `for log in logs` for the next log.
\* Yields the error of the first `?` that fails, or the updated table.
Classify(table, log) ==
    IF log.address \in DOMAIN table
    THEN [error |-> "none",
          table |-> [table EXCEPT ![log.address].amms_length = @ + 1]]
    ELSE LET decoded == FactoryTryFrom(log.topic0) IN
         IF ~decoded.ok
         THEN [error |-> "UnknownEventSignature", table |-> table]
         ELSE IF log.block_number = NoBlockNumber
         THEN [error |-> "BlockNumberNotFound", table |-> table]
         ELSE [error |-> "none",
               table |-> Insert(table, log.address,
                                [factory |-> NewFactory(decoded.variant, log.address,
                                                        log.block_number),
                                 amms_length |-> 0])]

\* as ForLog, but a log that fails to classify is skipped
ForLogSkipsErrors ==
    /\ pc = "for"
    /\ logs /= <<>>
    /\ LET r == Classify(identified_factories, Head(logs)) IN
         /\ identified_factories' = r.table
         /\ logs' = Tail(logs)
    /\ UNCHANGED <<chain, args, harness, pc, outcome, from_block, current_block,
                   target_block, filtered_factories, requests>>

ForLog ==
    /\ pc = "for"
    /\ logs /= <<>>
    /\ LET r == Classify(identified_factories, Head(logs)) IN
         IF r.error = "none"
         THEN /\ identified_factories' = r.table
              /\ logs' = Tail(logs)
              /\ UNCHANGED <<pc, outcome>>
         ELSE /\ outcome' = r.error
              /\ pc' = "done"
              /\ UNCHANGED <<identified_factories, logs>>
    /\ UNCHANGED <<chain, args, harness, from_block, current_block, target_block,
                   filtered_factories, requests>>

\* as NextWindow, but the scan moves on while logs of the window are still
\* unclassified
NextWindowEarly ==
    /\ pc = "for"
    /\ from_block' = WrappingAdd(from_block, step)
    /\ pc' = "while"
    /\ UNCHANGED <<chain, args, harness, current_block, target_block, logs,
                   identified_factories, filtered_factories, outcome, requests>>

\* line 113: the window's logs are exhausted.  An overflow of from_block +
\* step has panicked at line 66 in a build with overflow checks, so here the
\* sum wraps.
NextWindow ==
    /\ pc = "for"
    /\ logs = <<>>
    /\ from_block' = WrappingAdd(from_block, step)
    /\ pc' = "while"
    /\ UNCHANGED <<chain, args, harness, current_block, target_block, logs,
                   identified_factories, filtered_factories, outcome, requests>>

\* the orders in which a HashMap over these keys may be iterated
Orders(keys) ==
    { s \in [1..Cardinality(keys) -> keys] :
        \A i, j \in 1..Cardinality(keys) : i /= j => s[i] /= s[j] }

RECURSIVE FilterAbove(_, _, _)
\* as FilterInOrder, but keeping only the counts strictly above the threshold
FilterAbove(table, order, threshold) ==
    IF order = <<>> THEN <<>>
    ELSE LET e == table[Head(order)] IN
         IF e.amms_length > threshold
         THEN <<e.factory>> \o FilterAbove(table, Tail(order), threshold)
         ELSE FilterAbove(table, Tail(order), threshold)

RECURSIVE FilterInOrder(_, _, _)
\* lines 116-125, for one iteration order of the map
FilterInOrder(table, order, threshold) ==
    IF order = <<>> THEN <<>>
    ELSE LET e == table[Head(order)] IN
         IF e.amms_length >= threshold
         THEN <<e.factory>> \o FilterInOrder(table, Tail(order), threshold)
         ELSE FilterInOrder(table, Tail(order), threshold)

\* lines 64, 116-128: loop test failed, threshold filter, Ok(filtered_factories)
FilterFactories ==
    /\ pc = "while"
    /\ ~(from_block < current_block)
    /\ \E order \in Orders(DOMAIN identified_factories) :
         filtered_factories' =
             FilterInOrder(identified_factories, order, number_of_amms_threshold)
    /\ outcome' = "Ok"
    /\ pc' = "done"
    /\ UNCHANGED <<chain, args, harness, from_block, current_block, target_block,
                   logs, identified_factories, requests>>

Next ==
    \/ CallGetBlockNumber
    \/ AwaitBlockNumber
    \/ CallGetLogs
    \/ AwaitLogs
    \/ ForLog
    \/ NextWindow
    \/ FilterFactories

Spec == Init /\ [][Next]_vars

\* the same call for every head height and step of the integer type
SpecWide == InitWide /\ [][Next]_vars

\* the returned collection without its order
ResultSet(seq) == { seq[i] : i \in 1..Len(seq) }

\* as Rerun, but the aggregation table outlives the call (process-wide state
\* instead of the local of line 61)
RerunKeepsTable ==
    /\ pc = "done"
    /\ run = 1
    /\ run' = 2
    /\ first' = [outcome |-> outcome, step |-> step,
                 table |-> identified_factories,
                 result |-> ResultSet(filtered_factories)]
    /\ step' \in Steps(chain_head)
    /\ pc' = "get_block_number"
    /\ from_block' = 0
    /\ current_block' = 0
    /\ target_block' = 0
    /\ logs' = <<>>
    /\ filtered_factories' = <<>>
    /\ outcome' = "running"
    /\ requests' = <<>>
    /\ UNCHANGED <<chain, factories, number_of_amms_threshold,
                   identified_factories, other>>

\* The caller calls discover_factories again on the unchanged chain, with the
\* same factories and threshold and with any step.
Rerun ==
    /\ pc = "done"
    /\ run = 1
    /\ run' = 2
    /\ first' = [outcome |-> outcome, step |-> step,
                 table |-> identified_factories,
                 result |-> ResultSet(filtered_factories)]
    /\ step' \in Steps(chain_head)
    /\ pc' = "get_block_number"
    /\ from_block' = 0
    /\ current_block' = 0
    /\ target_block' = 0
    /\ logs' = <<>>
    /\ identified_factories' = EmptyTable
    /\ filtered_factories' = <<>>
    /\ outcome' = "running"
    /\ requests' = <<>>
    /\ UNCHANGED <<chain, factories, number_of_amms_threshold, other>>

NextRerun == Next \/ Rerun

SpecRerun == InitRerun /\ [][NextRerun]_vars

\* After the call has been run alone, the caller makes the same call again
\* (call 1) together with a second call (call 2) of any arguments on the same
\* middleware.
StartPair ==
    /\ pc = "done"
    /\ run = 1
    /\ run' = 2
    /\ first' = [outcome |-> outcome, step |-> step,
                 table |-> identified_factories,
                 result |-> ResultSet(filtered_factories)]
    /\ pc' = "get_block_number"
    /\ from_block' = 0
    /\ current_block' = 0
    /\ target_block' = 0
    /\ logs' = <<>>
    /\ identified_factories' = EmptyTable
    /\ filtered_factories' = <<>>
    /\ outcome' = "running"
    /\ requests' = <<>>
    /\ \E fs \in FactoryVecs, st \in Steps(chain_head) :
         other' = EntryFrame(2, fs, number_of_amms_threshold, st)
    /\ UNCHANGED <<chain, args>>

\* as Switch, but identified_factories is one table that both calls use
SwitchSharesTable ==
    /\ other.id /= 0
    /\ other' = Frame(3 - other.id)
    /\ factories' = other.factories
    /\ number_of_amms_threshold' = other.number_of_amms_threshold
    /\ step' = other.step
    /\ pc' = other.pc
    /\ from_block' = other.from_block
    /\ current_block' = other.current_block
    /\ target_block' = other.target_block
    /\ logs' = other.logs
    /\ filtered_factories' = other.filtered_factories
    /\ outcome' = other.outcome
    /\ requests' = other.requests
    /\ UNCHANGED <<chain, run, first, identified_factories>>

\* The executor leaves the executing call where it is and resumes the other
\* one: each call has its own arguments and locals, identified_factories
\* (line 61) among them; the middleware is shared.
Switch ==
    /\ other.id /= 0
    /\ other' = Frame(3 - other.id)
    /\ factories' = other.factories
    /\ number_of_amms_threshold' = other.number_of_amms_threshold
    /\ step' = other.step
    /\ pc' = other.pc
    /\ from_block' = other.from_block
    /\ current_block' = other.current_block
    /\ target_block' = other.target_block
    /\ logs' = other.logs
    /\ identified_factories' = other.identified_factories
    /\ filtered_factories' = other.filtered_factories
    /\ outcome' = other.outcome
    /\ requests' = other.requests
    /\ UNCHANGED <<chain, run, first>>

NextPair == Next \/ StartPair \/ Switch

SpecPair == InitPair /\ [][NextPair]_vars

\* ------------------------------------------------------------------------
\* Properties
\* ------------------------------------------------------------------------
IsGetLogs(r) == r.kind = "get_logs"

\* the get_logs requests issued so far, in order
Queries == SelectSeq(requests, IsGetLogs)

\* the queries whose window holds block height h
QueriesOf(h) == { k \in 1..Len(Queries) :
                    Queries[k].from_block <= h /\ h <= Queries[k].to_block }

Minimum(a, b) == IF a < b THEN a ELSE b

\* C1: after a successful scan every block height 0..H lies in exactly one
\* queried window.
C1_FullCoverage ==
    outcome = "Ok" => \A h \in 0..chain_head : Cardinality(QueriesOf(h)) = 1

\* the positions in the chain of the logs of address a that lie in a queried
\* window (the scanned range)
ScannedLogsOf(a) ==
    { i \in 1..Len(chain_logs) :
        chain_logs[i].address = a /\ QueriesOf(chain_logs[i].height) /= {} }

\* the positions in the chain of all logs of address a
AllLogsOf(a) == { i \in 1..Len(chain_logs) : chain_logs[i].address = a }

\* C2: after a successful scan an address with N >= 1 logs in the scanned
\* range has an entry whose event count is N - 1.
C2_CountIsLogsMinusOne ==
    outcome = "Ok" =>
        \A a \in Addresses :
            ScannedLogsOf(a) /= {} =>
                /\ a \in DOMAIN identified_factories
                /\ identified_factories[a].amms_length =
                       Cardinality(ScannedLogsOf(a)) - 1

\* C2 witness: a successful scan of several windows in which one address has
\* two logs (count 1) and another has one log (count 0).
C2_Witness ==
    /\ outcome = "Ok"
    /\ Len(Queries) >= 2
    /\ \E a, b \in DOMAIN identified_factories :
         /\ Cardinality(ScannedLogsOf(a)) = 2
         /\ identified_factories[a].amms_length = 1
         /\ Cardinality(ScannedLogsOf(b)) = 1
         /\ identified_factories[b].amms_length = 0

\* C3: for a fixed head height and log set, two successful scans with any two
\* steps end with the same aggregation table.
C3_PartitionInvariance ==
    (run = 2 /\ outcome = "Ok" /\ first.outcome = "Ok") =>
        identified_factories = first.table

\* the addresses of the returned records
ReturnedAddresses ==
    { filtered_factories[i].address : i \in 1..Len(filtered_factories) }

\* C4: with threshold 0 a successful scan returns a record for every address
\* that has a log at any height 0..H.
C4_ThresholdZeroReturnsAll ==
    (outcome = "Ok" /\ number_of_amms_threshold = 0) =>
        \A a \in Addresses : AllLogsOf(a) /= {} => a \in ReturnedAddresses

\* the records of the entries whose count reaches the threshold
Selected ==
    { identified_factories[a].factory :
        a \in { b \in DOMAIN identified_factories :
                  identified_factories[b].amms_length >= number_of_amms_threshold } }

\* C5: on success the returned collection holds exactly the records of the
\* entries with event_count >= threshold, each once; it is empty, with a
\* success outcome, when the threshold exceeds every count.
C5_ThresholdFilter ==
    outcome = "Ok" =>
        /\ ResultSet(filtered_factories) = Selected
        /\ Len(filtered_factories) = Cardinality(Selected)
        /\ \A i \in 1..Len(filtered_factories) :
             filtered_factories[i] =
                 identified_factories[filtered_factories[i].address].factory

\* C5 witness: one entry reaches the threshold and is returned, another does
\* not and is left out (A with 2 logs, B with 1 log, threshold 1).
C5_Witness ==
    /\ outcome = "Ok"
    /\ number_of_amms_threshold >= 1
    /\ \E a, b \in DOMAIN identified_factories :
         /\ identified_factories[a].amms_length >= number_of_amms_threshold
         /\ identified_factories[b].amms_length < number_of_amms_threshold
         /\ a \in ReturnedAddresses
         /\ b \notin ReturnedAddresses

\* the lowest height of a scanned log of address a
FirstScannedHeight(a) ==
    CHOOSE h \in { chain_logs[i].height : i \in ScannedLogsOf(a) } :
        \A i \in ScannedLogsOf(a) : h <= chain_logs[i].height

\* the lowest height of any log of address a
FirstHeight(a) ==
    CHOOSE h \in { chain_logs[i].height : i \in AllLogsOf(a) } :
        \A i \in AllLogsOf(a) : h <= chain_logs[i].height

\* C7: the creation_block of every entry is the height of the address's
\* first (lowest) log in the scanned range, which is its first log overall.
C7_CreationBlockIsFirstLog ==
    \A a \in DOMAIN identified_factories :
        /\ ScannedLogsOf(a) /= {}
        /\ identified_factories[a].factory.creation_block = FirstScannedHeight(a)
        /\ identified_factories[a].factory.creation_block = FirstHeight(a)

\* C7 witness: a finished scan in which an address has logs at two heights in
\* two different windows and its entry carries the lower one.
C7_Witness ==
    /\ outcome = "Ok"
    /\ \E a \in DOMAIN identified_factories :
         \E i, j \in ScannedLogsOf(a) :
            /\ chain_logs[i].height < chain_logs[j].height
            /\ QueriesOf(chain_logs[i].height) /= QueriesOf(chain_logs[j].height)
            /\ identified_factories[a].factory.creation_block = chain_logs[i].height

\* C8: a failed provider request (height or logs) ends the call with
\* MiddlewareError and no record returned; every request before the failed one
\* succeeded and none follows it (no retry, no further request).
C8_ProviderFailureAborts ==
    /\ \A i \in 1..(Len(requests) - 1) : requests[i].ok
    /\ (requests /= <<>> /\ ~requests[Len(requests)].ok) <=>
           outcome = "MiddlewareError"
    /\ outcome = "MiddlewareError" =>
           /\ pc = "done"
           /\ filtered_factories = <<>>
           /\ ~ENABLED Next

\* C8 witness: get_logs fails for the second window after the first window's
\* logs were classified; nothing is returned.
C8_Witness ==
    /\ outcome = "MiddlewareError"
    /\ Len(Queries) = 2
    /\ identified_factories /= EmptyTable
    /\ filtered_factories = <<>>

\* the next log of the loop belongs to an address without an entry
NewAddressLog ==
    /\ pc = "for"
    /\ logs /= <<>>
    /\ Head(logs).address \notin DOMAIN identified_factories

\* the call ends with the error e: nothing inserted, the log not consumed,
\* nothing returned, no further request
FailsWith(e) ==
    /\ outcome' = e
    /\ pc' = "done"
    /\ identified_factories' = identified_factories
    /\ logs' = logs
    /\ filtered_factories' = <<>>
    /\ requests' = requests

\* C9 as stated: a log of a new address without block height fails the call
\* with BlockNumberNotFound, whatever its topics[0].
C9_Original ==
    [][(NewAddressLog /\ Head(logs).block_number = NoBlockNumber)
          => FailsWith("BlockNumberNotFound")]_vars

\* C9: a log of a new address whose topics[0] is a factory signature and that
\* carries no block height fails the call with BlockNumberNotFound: no entry
\* is inserted, the log is not skipped, nothing is returned; and a call that
\* has failed so takes no further step.
C9_MissingBlockNumber ==
    [][/\ (/\ NewAddressLog
            /\ FactoryTryFrom(Head(logs).topic0).ok
            /\ Head(logs).block_number = NoBlockNumber)
          => FailsWith("BlockNumberNotFound")
       /\ outcome = "BlockNumberNotFound" =>
              UNCHANGED <<pc, outcome, requests, logs, identified_factories,
                          filtered_factories>>]_vars

\* C9 witness: the call has failed with BlockNumberNotFound on the log of a
\* new address while another address already had its entry.
C9_Witness ==
    /\ outcome = "BlockNumberNotFound"
    /\ logs /= <<>>
    /\ Head(logs).block_number = NoBlockNumber
    /\ Head(logs).address \notin DOMAIN identified_factories
    /\ identified_factories /= EmptyTable
    /\ filtered_factories = <<>>

\* C10: a log of a new address whose topics[0] is no factory signature fails
\* the call with UnknownEventSignature: no entry is inserted, the log is not
\* skipped, and the scan takes no further step (no later log, no later window).
C10_UnknownSignature ==
    [][/\ (NewAddressLog /\ ~FactoryTryFrom(Head(logs).topic0).ok)
          => FailsWith("UnknownEventSignature")
       /\ outcome = "UnknownEventSignature" =>
              UNCHANGED <<pc, outcome, requests, logs, identified_factories,
                          filtered_factories>>]_vars

\* C10 witness: the call has failed with UnknownEventSignature on the log of a
\* new address, with later logs of the window still unprocessed.
C10_Witness ==
    /\ outcome = "UnknownEventSignature"
    /\ Len(logs) >= 2
    /\ Head(logs).topic0 = OtherTopic
    /\ Head(logs).address \notin DOMAIN identified_factories
    /\ filtered_factories = <<>>

Answered(o) == o \in {"Ok", "BlockNumberNotFound", "UnknownEventSignature"}

\* C11: a second call with the same factories, threshold and step on the
\* unchanged chain, the provider answering both calls, ends with the same
\* outcome, the same aggregation table and the same records returned (in any
\* order).
C11_Idempotent ==
    (run = 2 /\ pc = "done" /\ step = first.step
       /\ Answered(outcome) /\ Answered(first.outcome)) =>
        /\ outcome = first.outcome
        /\ identified_factories = first.table
        /\ ResultSet(filtered_factories) = first.result

\* C11 witness: both calls succeeded with the same step over several windows
\* and ended with the same non-empty table holding a count above 0.
C11_Witness ==
    /\ run = 2
    /\ outcome = "Ok"
    /\ first.outcome = "Ok"
    /\ step = first.step
    /\ Len(Queries) >= 2
    /\ identified_factories = first.table
    /\ \E a \in DOMAIN identified_factories :
         identified_factories[a].amms_length >= 1

\* the provider requests that have not returned yet
Outstanding == { i \in 1..Len(requests) : ~requests[i].answered }

C14_TableEntriesStable ==
    [][/\ \A a \in DOMAIN identified_factories' :
            identified_factories'[a].factory.address = a
       /\ \A a \in (DOMAIN identified_factories') \ (DOMAIN identified_factories) :
            identified_factories'[a].amms_length = 0
       /\ \A a \in DOMAIN identified_factories :
            /\ a \in DOMAIN identified_factories'
            /\ identified_factories'[a].factory = identified_factories[a].factory
            /\ identified_factories'[a].amms_length \in
                  { identified_factories[a].amms_length,
                    identified_factories[a].amms_length + 1 }]_vars

\* C14 witness: a finished scan with two entries, one of them counted up
\* after it was established.
C14_Witness ==
    /\ outcome = "Ok"
    /\ Cardinality(DOMAIN identified_factories) = 2
    /\ \E a \in DOMAIN identified_factories :
         identified_factories[a].amms_length >= 1

\* the next log of the loop belongs to an address that has an entry
KnownAddressLog ==
    /\ pc = "for"
    /\ logs /= <<>>
    /\ Head(logs).address \in DOMAIN identified_factories

\* C15: a log of an address that has an entry never fails, whatever its
\* topics[0] and block height: the entry's event_count grows by 1 and nothing
\* else of the table changes.
C15_KnownAddressCounts ==
    [][KnownAddressLog =>
          /\ outcome' = outcome
          /\ pc' = "for"
          /\ logs' = Tail(logs)
          /\ identified_factories' =
                [identified_factories EXCEPT
                   ![Head(logs).address].amms_length = @ + 1]]_vars

\* C15 witness: a scan succeeded although a later log of a known address had
\* an unknown topics[0] and no block height; the log was counted.
C15_Witness ==
    /\ outcome = "Ok"
    /\ \E a \in DOMAIN identified_factories :
         /\ identified_factories[a].amms_length = Cardinality(ScannedLogsOf(a)) - 1
         /\ \E i \in ScannedLogsOf(a) :
              /\ chain_logs[i].topic0 = OtherTopic
              /\ chain_logs[i].block_number = NoBlockNumber

RECURSIVE FirstError(_, _)
\* the error of the first log of seq that fails to classify, the logs being
\* classified in order starting from table
FirstError(seq, table) ==
    IF seq = <<>> THEN "none"
    ELSE LET r == Classify(table, Head(seq)) IN
         IF r.error /= "none" THEN r.error ELSE FirstError(Tail(seq), r.table)

\* the logs handed to the classifier so far, in processing order
Processed ==
    LET Delivered(l) ==
          \E k \in 1..Len(Queries) :
              /\ Queries[k].answered
              /\ Queries[k].ok
              /\ Queries[k].from_block <= l.height
              /\ l.height <= Queries[k].to_block
    IN SelectSeq(chain_logs, Delivered)

\* C18: a log of a new address with an unknown topics[0] and no block height
\* fails with UnknownEventSignature, not BlockNumberNotFound; and the call's
\* classification error is that of the first log, in processing order, that
\* fails.
C18_ErrorPrecedence ==
    [][/\ (/\ NewAddressLog
            /\ ~FactoryTryFrom(Head(logs).topic0).ok
            /\ Head(logs).block_number = NoBlockNumber)
          => outcome' = "UnknownEventSignature"
       /\ outcome' \in {"UnknownEventSignature", "BlockNumberNotFound"} =>
             outcome' = FirstError(Processed', EmptyTable)
       /\ outcome' = "Ok" => FirstError(Processed', EmptyTable) = "none"]_vars

\* C18 witness: the call failed with UnknownEventSignature on a log of a new
\* address that has neither a known topics[0] nor a block height.
C18_Witness ==
    /\ outcome = "UnknownEventSignature"
    /\ logs /= <<>>
    /\ Head(logs).topic0 = OtherTopic
    /\ Head(logs).block_number = NoBlockNumber
    /\ Head(logs).address \notin DOMAIN identified_factories

\* ceil(a / b)
CeilDiv(a, b) == (a + b - 1) \div b

\* C16: for every head height H and every step > 0 the scan loop ends by
\* its exit test, as soon as from_block >= H, after exactly ceil(H / step)
\* log queries (never more); with H = 0 no log query is issued and the
\* result is empty and successful.
C16_StopsAfterCeilQueries ==
    /\ outcome /= "Panic"
    /\ Len(Queries) <= CeilDiv(chain_head, step)
    /\ outcome = "Ok" =>
         /\ Len(Queries) = CeilDiv(chain_head, step)
         /\ from_block >= chain_head
         /\ (chain_head = 0 => /\ Len(Queries) = 0
                                /\ filtered_factories = <<>>)

\* C17: from_block + step - 1 (line 66) and from_block += step (line 113)
\* never overflow, and from_block only grows.
C17_NoOverflow ==
    [][/\ (pc = "while" /\ from_block < current_block)
            => ~Overflows(from_block, step)
       /\ (pc = "for" /\ pc' = "while") => from_block' > from_block]_vars

\* the two calls in progress, call 1 first
Calls == IF other.id = 1 THEN <<other, Frame(2)>> ELSE <<Frame(1), other>>

\* the call was given the arguments of call 1, which are those of the call
\* that was run alone
SameArguments(f) ==
    /\ f.factories = Calls[1].factories
    /\ f.number_of_amms_threshold = Calls[1].number_of_amms_threshold
    /\ f.step = Calls[1].step

\* C13: of two calls whose steps interleave on the same middleware, each
\* ends with the outcome, the table and the result it has when run alone
\* (provider failures apart).
C13_Independent ==
    run = 2 /\ other.id /= 0 =>
        \A i \in 1..2 :
            (/\ Calls[i].pc = "done"
             /\ SameArguments(Calls[i])
             /\ Answered(Calls[i].outcome)
             /\ Answered(first.outcome)) =>
                /\ Calls[i].outcome = first.outcome
                /\ Calls[i].identified_factories = first.table
                /\ ResultSet(Calls[i].filtered_factories) = first.result

\* C13 witness: call 1 has ended as it did alone, with an entry in its table,
\* while call 2, which has an entry of its own, is still scanning.
C13_Witness ==
    /\ run = 2
    /\ other.id /= 0
    /\ Calls[1].pc = "done"
    /\ Calls[1].outcome = "Ok"
    /\ Calls[1].identified_factories = first.table
    /\ Calls[1].identified_factories /= EmptyTable
    /\ Calls[2].pc \in {"for", "while", "await_logs"}
    /\ Calls[2].identified_factories /= EmptyTable

====
